---- MODULE Spec2Model ----
(***************************************************************************)
(* Model of streamlit_app.py, the Elect Nano product label generator.      *)
(*                                                                         *)
(* A text is a sequence of characters, each character a one-element        *)
(* string; the token "sz" stands for the character U+00DF (sharp s), the   *)
(* one character of the input alphabet whose upper-case form is two        *)
(* characters long.  A date is a record [y, m, d].  A template file is     *)
(* named by a string; NoFile is the absent file (Python's None).           *)
(***************************************************************************)
EXTENDS Integers, Sequences, FiniteSets, TLC

VARIABLES
    template_file,   \* value of the st.file_uploader widget "template_file"
    session_state,   \* st.session_state["_uploaded_template"]
    default_file,    \* the bundled template on disk next to the script
    form,            \* values of the widgets of st.form("label_form")
    cache,           \* entries of st.cache_data for render_label
    run,             \* what the last run of main() did and displayed
    last_upload,     \* history: the file most recently uploaded in the session
    text,            \* input of the sanitizers (sanitizer specification)
    san              \* their outputs on text (sanitizer specification)

vars == <<template_file, session_state, default_file, form, cache, run,
          last_upload, text, san>>

----------------------------------------------------------------------------
(* Characters                                                              *)

LowerLetters ==
    <<"a","b","c","d","e","f","g","h","i","j","k","l","m",
      "n","o","p","q","r","s","t","u","v","w","x","y","z">>

UpperLetters ==
    <<"A","B","C","D","E","F","G","H","I","J","K","L","M",
      "N","O","P","Q","R","S","T","U","V","W","X","Y","Z">>

DigitChars == <<"0","1","2","3","4","5","6","7","8","9">>

Range(s) == {s[i] : i \in DOMAIN s}

\* str.upper() on one character: a lower-case letter becomes its upper-case
\* letter, the sharp s becomes "SS", every other character stays.
UpperChar ==
    [c \in Range(LowerLetters) \cup {"sz"} |->
        IF c = "sz" THEN <<"S", "S">>
        ELSE <<UpperLetters[CHOOSE i \in DOMAIN LowerLetters : LowerLetters[i] = c]>>]

RECURSIVE Flatten(_)
Flatten(parts) ==
    IF parts = <<>> THEN <<>> ELSE Head(parts) \o Flatten(Tail(parts))

\* str.upper()
upper(s) ==
    IF \A i \in DOMAIN s : s[i] # "sz"
    THEN [i \in DOMAIN s |-> IF s[i] \in DOMAIN UpperChar THEN UpperChar[s[i]][1] ELSE s[i]]
    ELSE Flatten([i \in DOMAIN s |->
                    IF s[i] \in DOMAIN UpperChar THEN UpperChar[s[i]] ELSE <<s[i]>>])

\* The character class [A-Z0-9\-\.\/] of sanitize_lot_code and
\* sanitize_ai91_text.
LotChars == Range(UpperLetters) \cup Range(DigitChars) \cup {"-", ".", "/"}

\* The character class [A-Z0-9\-\.\/ ] of sanitize_gs1_text.
Gs1Chars == LotChars \cup {" "}

\* re.sub(r'[^...]', '', s): drop every character outside the class.
re_sub_drop(class, s) == SelectSeq(s, LAMBDA c : c \in class)

\* s[:n]
Prefix(s, n) == SubSeq(s, 1, IF Len(s) < n THEN Len(s) ELSE n)

----------------------------------------------------------------------------
(* Sanitizers                                                              *)

Ai91MaxLen == 40

sanitize_lot_code_upper_only(lot_code) == upper(lot_code)

sanitize_lot_code(lot_code) == re_sub_drop(LotChars, upper(lot_code))

sanitize_gs1_text(t) == re_sub_drop(Gs1Chars, upper(t))

sanitize_ai91_text_with_space(t) ==
    Prefix(re_sub_drop(Gs1Chars, upper(t)), Ai91MaxLen)

sanitize_ai91_text(t) == Prefix(re_sub_drop(LotChars, upper(t)), Ai91MaxLen)

----------------------------------------------------------------------------
(* Number and date formatting                                              *)

\* str(n) for n >= 0: the decimal digits of n.
RECURSIVE Decimal(_)
Decimal(n) ==
    IF n < 10 THEN <<DigitChars[n + 1]>>
    ELSE Decimal(n \div 10) \o <<DigitChars[(n % 10) + 1]>>

\* f"{n:0{w}d}" for n >= 0: zeros are added on the left up to width w; a
\* number with more than w digits keeps all of them.
ZeroPad(n, w) ==
    LET d == Decimal(n)
    IN  IF Len(d) >= w THEN d ELSE [i \in 1..(w - Len(d)) |-> "0"] \o d

QtyWidth == 5

\* f"{quantity:05d}"
FormatQty(quantity) == ZeroPad(quantity, QtyWidth)

\* mfg.strftime("%y%m%d")
strftime_yymmdd(mfg) ==
    ZeroPad(mfg.y % 100, 2) \o ZeroPad(mfg.m, 2) \o ZeroPad(mfg.d, 2)

\* f"{mfg_date:%Y-%m-%d}"
strftime_iso(mfg) ==
    ZeroPad(mfg.y, 4) \o <<"-">> \o ZeroPad(mfg.m, 2) \o <<"-">> \o ZeroPad(mfg.d, 2)

----------------------------------------------------------------------------
(* GS1 string                                                              *)

\* "(ai)value"
Pair(ai, value) == <<"(">> \o ai \o <<")">> \o value

build_gs1_string_po_part_swapped(gtin14, lot, mfg, country_code, sku, cust_po, cust_part, revision, note, quantity) ==
    Pair(<<"0","1">>, gtin14)
    \o Pair(<<"3","0">>, FormatQty(quantity))
    \o Pair(<<"1","1">>, strftime_yymmdd(mfg))
    \o Pair(<<"4","2","2">>, country_code)
    \o Pair(<<"1","0">>, lot)
    \o Pair(<<"2","1">>, sanitize_gs1_text(sku))
    \o Pair(<<"4","0","0">>, sanitize_gs1_text(cust_part))
    \o Pair(<<"7","0","2","1">>, sanitize_gs1_text(cust_po))
    \o Pair(<<"7","0","2","2">>, sanitize_gs1_text(revision))
    \o Pair(<<"9","1">>, note)

build_gs1_string_date_first(gtin14, lot, mfg, country_code, sku, cust_po, cust_part, revision, note, quantity) ==
    Pair(<<"0","1">>, gtin14)
    \o Pair(<<"1","1">>, strftime_yymmdd(mfg))
    \o Pair(<<"3","0">>, FormatQty(quantity))
    \o Pair(<<"4","2","2">>, country_code)
    \o Pair(<<"1","0">>, lot)
    \o Pair(<<"2","1">>, sanitize_gs1_text(sku))
    \o Pair(<<"4","0","0">>, sanitize_gs1_text(cust_po))
    \o Pair(<<"7","0","2","1">>, sanitize_gs1_text(cust_part))
    \o Pair(<<"7","0","2","2">>, sanitize_gs1_text(revision))
    \o Pair(<<"9","1">>, note)

build_gs1_string(gtin14, lot, mfg, country_code, sku, cust_po, cust_part, revision, note, quantity) ==
    Pair(<<"0","1">>, gtin14)
    \o Pair(<<"3","0">>, FormatQty(quantity))
    \o Pair(<<"1","1">>, strftime_yymmdd(mfg))
    \o Pair(<<"4","2","2">>, country_code)
    \o Pair(<<"1","0">>, lot)
    \o Pair(<<"2","1">>, sanitize_gs1_text(sku))
    \o Pair(<<"4","0","0">>, sanitize_gs1_text(cust_po))
    \o Pair(<<"7","0","2","1">>, sanitize_gs1_text(cust_part))
    \o Pair(<<"7","0","2","2">>, sanitize_gs1_text(revision))
    \o Pair(<<"9","1">>, note)

----------------------------------------------------------------------------
(* Templates and label rendering                                           *)

NoFile == "NoFile"

\* Number of pages of a template: T0 and D0 are PDF files without a page,
\* EMPTY is the empty byte string; T1 and D1 have one page.
Pages(file) == IF file \in {"T0", "D0", "EMPTY"} THEN 0 ELSE 1

\* The argument tuple of a render_label call.
RenderArgs(sku, lot_code, mfg_date, coo_display, background_bytes, gs1_data, cust_part, revision, cust_po, note, quantity) ==
    [sku |-> sku, lot_code |-> lot_code, mfg_date |-> mfg_date,
     coo_display |-> coo_display, background_bytes |-> background_bytes,
     gs1_data |-> gs1_data, cust_part |-> cust_part, revision |-> revision,
     cust_po |-> cust_po, note |-> note, quantity |-> quantity]

NotePrintLen == 40

\* The body of render_label on a background with a page: the text lines
\* drawn on the overlay, the data given to generate_barcode_image, and the
\* background page the overlay is merged onto.
render_label(a) ==
    [part |-> a.cust_part,
     rev |-> a.revision,
     po |-> a.cust_po,
     note |-> Prefix(a.note, NotePrintLen),
     quantity |-> Decimal(a.quantity),
     sku |-> a.sku,
     lot |-> a.lot_code,
     mfg |-> strftime_iso(a.mfg_date),
     coo |-> a.coo_display,
     barcode |-> a.gs1_data,
     background |-> a.background_bytes]

\* base_pdf.pages[0] raises IndexError on a background without a page.
RenderRaises(a) == Pages(a.background_bytes) = 0

CacheKeyWithoutBackground(a) == [a EXCEPT !.background_bytes = NoFile]

\* The key st.cache_data derives from a call: every parameter of
\* render_label is hashed (none is named with a leading underscore).
CacheKey(a) == a

load_template_default_first(uploaded, candidate) ==
    IF candidate # NoFile THEN candidate
    ELSE IF uploaded # NoFile THEN uploaded
    ELSE NoFile

load_template_empty_bytes(uploaded, candidate) ==
    IF uploaded # NoFile THEN uploaded
    ELSE IF candidate # NoFile THEN candidate
    ELSE "EMPTY"

\* load_template: uploaded is st.session_state.get("_uploaded_template"),
\* candidate the default file (NoFile when it does not exist).
load_template(uploaded, candidate) ==
    IF uploaded # NoFile THEN uploaded
    ELSE IF candidate # NoFile THEN candidate
    ELSE NoFile

----------------------------------------------------------------------------
(* The form                                                                *)

GTIN14 == <<"0","0","0","6","9","7","6","6","9","6","7","8","4","2">>

\* country_options of main
country_options ==
    [Country \in {"United States", "Japan", "China"} |->
        CASE Country = "United States" -> <<"8","4","0">>
          [] Country = "Japan" -> <<"3","9","2">>
          [] Country = "China" -> <<"1","5","6">>]

\* date.today(), the default of the date widget
Today == [y |-> 2026, m |-> 11, d |-> 3]

\* The widgets' default values.
DefaultForm ==
    [sku |-> <<"X","-","M","C","-","C","O","-","E","M","I","-","0","0","0","-","0","1">>,
     lot_num |-> <<"E","N","-","Y","Y","M","M","-","X","X">>,
     mfg_date |-> Today,
     quantity |-> 1,
     coo_display |-> "United States",
     cust_po |-> <<"1","2","3","4","5","6","7","8","9">>,
     cust_part |-> <<"1","2","3","4","5","6","7","8","9">>,
     revision |-> <<"0","1">>,
     note |-> <<"E","n","t","e","r"," ","N","o","t","e"," ","H","e","r","e">>]

\* A note of 43 characters, all of them allowed in AI 91.
LongNote == <<"K","E","E","P","-","D","R","Y","/","S","T","O","R","E","-","B","E","L","O","W","-","2","5","C","/","U","S","E","-","W","I","T","H","I","N","-","1","2","-","M","O","N","T">>

\* A note of 44 characters, some of them dropped by sanitization.
LongMixedNote == <<"K","e","e","p"," ","d","r","y",","," ","s","t","o","r","e"," ","b","e","l","o","w"," ","2","5","C",";"," ","s","e","e"," ","s","h","e","e","t"," ","E","N","-","2","5","0","1">>

\* The values the user enters in each widget.
FieldValues ==
    [sku |-> {<<"x","-","m","c"," ","c","o","#","1">>},
     lot_num |-> {<<"E","N","-","2","5","0","1","-","X","X","!","!">>, <<"e","n","-","2","5","0","1","-","x","x">>},
     mfg_date |-> {[y |-> 2009, m |-> 1, d |-> 5]},
     quantity |-> {7, 100000},
     coo_display |-> {"Japan", "China"},
     cust_po |-> {<<"P","O","#","7","7"," ","a">>},
     cust_part |-> {<<"a","b","_","1","2","/","C">>},
     revision |-> {<<"r",".","2">>},
     note |-> {<<"L","O","T","-","N","O","T","E","/","1">>, LongNote, LongMixedNote}]

\* The forms a submission carries: the defaults with one widget edited.
Forms ==
    {DefaultForm} \cup
    {[DefaultForm EXCEPT ![k] = v] : <<k, v>> \in
        UNION {{<<k, v>> : v \in FieldValues[k]} : k \in DOMAIN FieldValues}}

\* The files the user uploads and the states of the default file on disk.
UploadFiles == {"T0", "T1"}
DefaultFiles == {NoFile, "D0", "D1"}

----------------------------------------------------------------------------
(* One run of the script                                                   *)

\* main(): tf is the uploader's value, ss the session's stored upload, df the
\* default file, f the form's values, submitted the submit button's value,
\* c the cache of render_label.  The result is the session's stored upload
\* and the cache after the run, and what the run did and displayed.
main(tf, ss, df, f, submitted, c) ==
    LET ss1 == IF tf # NoFile THEN tf ELSE ss
        lot_num == sanitize_lot_code(f.lot_num)
        coo_code == country_options[f.coo_display]
        cust_po == sanitize_gs1_text(f.cust_po)
        cust_part == sanitize_gs1_text(f.cust_part)
        revision == sanitize_gs1_text(f.revision)
        note == sanitize_ai91_text(f.note)
        shown == (IF tf # NoFile THEN {"upload_success"} ELSE {})
                 \cup (IF lot_num # f.lot_num THEN {"lot_warning"} ELSE {})
                 \cup (IF note # f.note THEN {"note_warning"} ELSE {})
        idle == [submitted |-> submitted, messages |-> shown,
                 load_called |-> FALSE, bg_bytes |-> NoFile,
                 gs1_data |-> <<>>, render_args |-> <<>>,
                 cache_hit |-> FALSE, exception |-> "", pdf_bytes |-> <<>>]
        bg_bytes == load_template(ss1, df)
        loaded == [idle EXCEPT !.load_called = TRUE, !.bg_bytes = bg_bytes]
        gs1_data == build_gs1_string(GTIN14, lot_num, f.mfg_date, coo_code,
                                     f.sku, cust_po, cust_part, revision, note,
                                     f.quantity)
        args == RenderArgs(f.sku, lot_num, f.mfg_date, f.coo_display, bg_bytes,
                           gs1_data, cust_part, revision, cust_po, f.note,
                           f.quantity)
        called == [loaded EXCEPT !.gs1_data = gs1_data, !.render_args = <<args>>]
        hits == {e \in c : e.key = CacheKey(args)}
    IN  IF ~submitted
        THEN [session_state |-> ss1, cache |-> c, run |-> idle]
        ELSE IF lot_num # f.lot_num
        THEN [session_state |-> ss1, cache |-> c,
              run |-> [idle EXCEPT !.messages = shown \cup {"lot_error"}]]
        ELSE IF bg_bytes = NoFile
        THEN [session_state |-> ss1, cache |-> c,
              run |-> [loaded EXCEPT
                          !.messages = shown \cup {"no_template_error"}]]
        ELSE IF hits # {}
        THEN [session_state |-> ss1, cache |-> c,
              run |-> [called EXCEPT
                          !.cache_hit = TRUE,
                          !.messages = shown \cup {"success"},
                          !.pdf_bytes = <<(CHOOSE e \in hits : TRUE).pdf>>]]
        ELSE IF RenderRaises(args)
        THEN [session_state |-> ss1, cache |-> c,
              run |-> [called EXCEPT !.exception = "IndexError"]]
        ELSE [session_state |-> ss1,
              cache |-> c \cup {[key |-> CacheKey(args), pdf |-> render_label(args)]},
              run |-> [called EXCEPT
                          !.messages = shown \cup {"success"},
                          !.pdf_bytes = <<render_label(args)>>]]

----------------------------------------------------------------------------
(* The session                                                             *)

MaxCache == 1

Init ==
    /\ template_file = NoFile
    /\ session_state = NoFile
    /\ default_file \in DefaultFiles
    /\ form = DefaultForm
    /\ cache = {}
    /\ run = main(NoFile, NoFile, default_file, DefaultForm, FALSE, {}).run
    /\ last_upload = NoFile
    /\ text = <<>>
    /\ san = <<>>

\* The user puts a file in the uploader; the script reruns.
Upload(t) ==
    \E r \in {main(t, session_state, default_file, form, FALSE, cache)} :
        /\ t # template_file
        /\ template_file' = t
        /\ session_state' = r.session_state
        /\ cache' = r.cache
        /\ run' = r.run
        /\ last_upload' = t
        /\ UNCHANGED <<default_file, form, text, san>>

\* The user removes the file from the uploader; the script reruns.
ClearUpload ==
    \E r \in {main(NoFile, session_state, default_file, form, FALSE, cache)} :
        /\ template_file # NoFile
        /\ template_file' = NoFile
        /\ session_state' = r.session_state
        /\ cache' = r.cache
        /\ run' = r.run
        /\ UNCHANGED <<default_file, form, last_upload, text, san>>

\* The user submits the form with the values f; the script reruns.  (A run
\* that would add an entry to a cache of MaxCache entries is left out.)
Submit(f) ==
    \E r \in {main(template_file, session_state, default_file, f, TRUE, cache)} :
        /\ Cardinality(r.cache) <= MaxCache
        /\ form' = f
        /\ session_state' = r.session_state
        /\ cache' = r.cache
        /\ run' = r.run
        /\ UNCHANGED <<template_file, default_file, last_upload, text, san>>

\* The cache of render_label is emptied (st.cache_data entries live until
\* the cache is cleared or the process ends).
ClearCache ==
    /\ cache # {}
    /\ cache' = {}
    /\ UNCHANGED <<template_file, session_state, default_file, form, run,
                   last_upload, text, san>>

Next ==
    \/ \E t \in UploadFiles : Upload(t)
    \/ ClearUpload
    \/ \E f \in Forms : Submit(f)
    \/ ClearCache

Spec == Init /\ [][Next]_vars

----------------------------------------------------------------------------
(* The sanitizers on arbitrary text                                        *)

MaxLen == 3

\* Characters of the input texts: a lower-case and an upper-case letter, a
\* digit, the hyphen, the space, a character no sanitizer allows, and the
\* character whose upper-case form is two characters.
Alphabet == {"a", "Z", "7", "-", " ", "!", "sz"}

ShortTexts == UNION {[1..n -> Alphabet] : n \in 0..MaxLen}

\* s repeated up to length n
Fill(s, n) == [i \in 1..n |-> s[((i - 1) % Len(s)) + 1]]

\* The short texts, and each of them repeated beyond the length limit of
\* sanitize_ai91_text.
TextInputs ==
    ShortTexts \cup {Fill(s, Ai91MaxLen + 1) : s \in ShortTexts \ {<<>>}}

InitSan ==
    /\ template_file = NoFile
    /\ session_state = NoFile
    /\ default_file = NoFile
    /\ form = DefaultForm
    /\ cache = {}
    /\ run = main(NoFile, NoFile, NoFile, DefaultForm, FALSE, {}).run
    /\ last_upload = NoFile
    /\ text \in TextInputs
    /\ san = <<>>

\* Each sanitizer is applied to text.
Sanitize ==
    /\ san = <<>>
    /\ san' = <<[lot |-> sanitize_lot_code(text),
                 gs1 |-> sanitize_gs1_text(text),
                 ai91 |-> sanitize_ai91_text(text)]>>
    /\ UNCHANGED <<template_file, session_state, default_file, form, cache,
                   run, last_upload, text>>

NextSan == Sanitize

SpecSan == InitSan /\ [][NextSan]_vars

----------------------------------------------------------------------------
(* Reading a GS1 string back                                               *)

\* The first position from `from` on where s holds c; Len(s) + 1 if none.
FirstAt(s, c, from) ==
    LET J == {j \in from..Len(s) : s[j] = c}
    IN  IF J = {} THEN Len(s) + 1 ELSE CHOOSE j \in J : \A k \in J : j <= k

\* The "(identifier)value" pairs of s from position i on.
RECURSIVE ParseFrom(_, _)
ParseFrom(s, i) ==
    IF i > Len(s) THEN <<>>
    ELSE LET close == FirstAt(s, ")", i)
             nxt == FirstAt(s, "(", close + 1)
         IN  <<[ai |-> SubSeq(s, i + 1, close - 1),
                value |-> SubSeq(s, close + 1, nxt - 1)]>>
             \o ParseFrom(s, nxt)

ParsePairs(s) == ParseFrom(s, 1)

Unparse(p) == Flatten([i \in DOMAIN p |-> Pair(p[i].ai, p[i].value)])

IsDigits(s) == \A i \in DOMAIN s : s[i] \in Range(DigitChars)

\* The integer a string of decimal digits denotes.
RECURSIVE ParseInt(_)
ParseInt(s) ==
    IF s = <<>> THEN 0
    ELSE 10 * ParseInt(SubSeq(s, 1, Len(s) - 1))
         + ((CHOOSE i \in DOMAIN DigitChars : DigitChars[i] = s[Len(s)]) - 1)

TwoDigits(n) == <<DigitChars[(n \div 10) + 1], DigitChars[(n % 10) + 1]>>

\* The identifiers of the GS1 string, in order.
AiOrder ==
    <<<<"0","1">>, <<"3","0">>, <<"1","1">>, <<"4","2","2">>, <<"1","0">>, <<"2","1">>, <<"4","0","0">>, <<"7","0","2","1">>, <<"7","0","2","2">>, <<"9","1">>>>

\* The value of the k-th pair of the GS1 string of the last run.
Encoded(k) == ParsePairs(run.gs1_data)[k].value

\* The characters the claims allow: A-Z, 0-9, '-', '.', '/'.
AllowedBasic == Range(UpperLetters) \cup Range(DigitChars) \cup {"-", ".", "/"}

\* The typed lot code equals its sanitized form: it holds allowed
\* characters only.
LotTypedClean == Range(form.lot_num) \subseteq AllowedBasic

\* The last run generated nothing.
NothingGenerated ==
    /\ run.gs1_data = <<>>
    /\ run.render_args = <<>>
    /\ run.pdf_bytes = <<>>

----------------------------------------------------------------------------
(* Claims                                                                  *)

\* C1: each sanitizer's output holds only characters of its allowed set
\* (A-Z, 0-9, '-', '.', '/', and the space for sanitize_gs1_text only), and
\* sanitizing the output again returns it unchanged, also for
\* sanitize_ai91_text with its truncation to 40 characters.
C1_SanitizersAllowedAndIdempotent ==
    san # <<>> =>
        /\ Range(san[1].lot) \subseteq AllowedBasic
        /\ Range(san[1].gs1) \subseteq AllowedBasic \cup {" "}
        /\ Range(san[1].ai91) \subseteq AllowedBasic
        /\ Len(san[1].ai91) <= 40
        /\ sanitize_lot_code(san[1].lot) = san[1].lot
        /\ sanitize_gs1_text(san[1].gs1) = san[1].gs1
        /\ sanitize_ai91_text(san[1].ai91) = san[1].ai91

\* A text longer than 40 characters, with a disallowed character and a
\* character that upper-casing lengthens, has been sanitized, and
\* sanitize_ai91_text has cut the result down to 40 characters.
C1_Witness ==
    /\ san # <<>>
    /\ Len(text) > 40
    /\ {"!", "sz"} \subseteq Range(text)
    /\ Len(san[1].lot) > 40
    /\ Len(san[1].ai91) = 40

\* C2: a submission whose typed lot code differs from its sanitized form
\* ('EN-2501-XX!!' sanitizes to 'EN-2501-XX') is refused: no GS1 string, no
\* render_label call, no download; this holds for every submission, the
\* later ones included, as long as the typed lot code is not clean.
C2_DirtyLotRefused ==
    (run.submitted /\ ~LotTypedClean) =>
        /\ "lot_error" \in run.messages
        /\ NothingGenerated
        /\ ~run.load_called
        /\ form.lot_num = <<"E","N","-","2","5","0","1","-","X","X","!","!">> =>
              sanitize_lot_code(form.lot_num) = <<"E","N","-","2","5","0","1","-","X","X">>

\* After an earlier submission generated a label, 'EN-2501-XX!!' is
\* submitted and refused.
C2_Witness ==
    /\ run.submitted
    /\ form.lot_num = <<"E","N","-","2","5","0","1","-","X","X","!","!">>
    /\ cache # {}
    /\ "lot_error" \in run.messages

\* C3: a valid form submitted when no template was uploaded in the session
\* and the default file does not exist: load_template returns None, main
\* reports the failure and stops, nothing is generated.
C3_NoTemplateStops ==
    (run.submitted /\ LotTypedClean /\ last_upload = NoFile /\ default_file = NoFile) =>
        /\ run.load_called
        /\ run.bg_bytes = NoFile
        /\ "no_template_error" \in run.messages
        /\ "success" \notin run.messages
        /\ run.exception = ""
        /\ NothingGenerated

C3_Witness ==
    /\ run.submitted
    /\ LotTypedClean
    /\ last_upload = NoFile
    /\ default_file = NoFile
    /\ "no_template_error" \in run.messages

\* C4: the background a submission uses is the most recently uploaded
\* template whenever a template was uploaded in the session, whether or not
\* the default file exists; the default file only when none was uploaded.
C4_UploadWins ==
    run.load_called =>
        run.bg_bytes = (IF last_upload # NoFile THEN last_upload ELSE default_file)

\* A submission made after T1 was uploaded and the uploader was cleared,
\* the default file existing, used T1.
C4_Witness ==
    /\ run.load_called
    /\ last_upload = "T1"
    /\ template_file = NoFile
    /\ default_file = "D1"
    /\ run.bg_bytes = "T1"
    /\ run.pdf_bytes # <<>>

\* C5: the GS1 string is exactly the pairs of the identifiers 01, 30, 11,
\* 422, 10, 21, 400, 7021, 7022, 91 in that order, nothing between or around
\* them; the 11 value is the manufacturing date as YYMMDD, the 422 value the
\* three-digit code of the selected country.
C5_PairsInOrder ==
    run.gs1_data # <<>> =>
        LET p == ParsePairs(run.gs1_data)
        IN  /\ [i \in DOMAIN p |-> p[i].ai] = AiOrder
            /\ Unparse(p) = run.gs1_data
            /\ p[3].value = TwoDigits(form.mfg_date.y % 100)
                            \o TwoDigits(form.mfg_date.m)
                            \o TwoDigits(form.mfg_date.d)
            /\ p[4].value = country_options[form.coo_display]
            /\ Len(p[4].value) = 3
            /\ IsDigits(p[4].value)

\* A label made in the United States on 2009-01-05: year, month and day
\* each need their leading zero.
C5_Witness ==
    /\ run.gs1_data # <<>>
    /\ form.mfg_date = [y |-> 2009, m |-> 1, d |-> 5]
    /\ Encoded(3) = <<"0","9","0","1","0","5">>
    /\ Encoded(4) = <<"8","4","0">>

\* C6: for every quantity the form accepts, the 30 value is exactly 5
\* decimal digits, zero-padded on the left, of the quantity's value.
C6_QuantityFiveDigits ==
    run.gs1_data # <<>> =>
        /\ Len(Encoded(2)) = 5
        /\ IsDigits(Encoded(2))
        /\ ParseInt(Encoded(2)) = form.quantity

C8_EveryChangeNoticed ==
    /\ sanitize_gs1_text(form.sku) # form.sku => "sku_warning" \in run.messages
    /\ sanitize_lot_code(form.lot_num) # form.lot_num => "lot_warning" \in run.messages
    /\ sanitize_gs1_text(form.cust_po) # form.cust_po => "cust_po_warning" \in run.messages
    /\ sanitize_gs1_text(form.cust_part) # form.cust_part => "cust_part_warning" \in run.messages
    /\ sanitize_gs1_text(form.revision) # form.revision => "revision_warning" \in run.messages
    /\ sanitize_ai91_text(form.note) # form.note => "note_warning" \in run.messages
    /\ (run.submitted /\ LotTypedClean) => "lot_error" \notin run.messages

\* C9: when the background of a submission has no page, no output is
\* produced and the user gets a descriptive message, not an uncaught
\* exception.
C9_ZeroPagesReported ==
    (run.render_args # <<>> /\ Pages(run.bg_bytes) = 0) =>
        /\ run.pdf_bytes = <<>>
        /\ "success" \notin run.messages
        /\ run.exception = ""
        /\ "template_error" \in run.messages

\* C10 as claimed: on every generated label, the printed SKU, lot code,
\* customer PO, customer part number, revision, note and quantity equal the
\* values the GS1 string encodes for them.
C10_PrintedEqualsEncoded ==
    run.pdf_bytes # <<>> =>
        LET pdf == run.pdf_bytes[1]
            p == ParsePairs(pdf.barcode)
        IN  /\ pdf.lot = p[5].value
            /\ pdf.po = p[7].value
            /\ pdf.part = p[8].value
            /\ pdf.rev = p[9].value
            /\ ParseInt(pdf.quantity) = ParseInt(p[2].value)
            /\ pdf.sku = p[6].value
            /\ pdf.note = p[10].value

\* C10 amended: the printed lot code, customer PO, customer part number and
\* revision equal the encoded values and the printed quantity has the
\* encoded quantity's value; the SKU is printed as typed and encoded
\* sanitized; the note is printed as the first 40 characters typed and
\* encoded as the sanitized, truncated note.
C10_PrintedVersusEncoded ==
    run.pdf_bytes # <<>> =>
        LET pdf == run.pdf_bytes[1]
            p == ParsePairs(pdf.barcode)
        IN  /\ pdf.lot = p[5].value
            /\ pdf.po = p[7].value
            /\ pdf.part = p[8].value
            /\ pdf.rev = p[9].value
            /\ ParseInt(pdf.quantity) = ParseInt(p[2].value)
            /\ pdf.sku = form.sku
            /\ p[6].value = sanitize_gs1_text(form.sku)
            /\ pdf.note = Prefix(form.note, 40)
            /\ p[10].value = sanitize_ai91_text(form.note)

\* A label whose typed customer PO sanitization changes, so that the PO
\* and the part number differ, and whose note is printed as typed.
C10_Witness ==
    /\ run.pdf_bytes # <<>>
    /\ form.cust_po # DefaultForm.cust_po
    /\ run.pdf_bytes[1].po # run.pdf_bytes[1].part
    /\ run.pdf_bytes[1].note # Encoded(10)

====
